---- MODULE Spec2Model ----
(***************************************************************************)
(* Hybrid retrieval and reranking of DocChat (src/app/retriever.py).       *)
(*                                                                         *)
(* Text is a sequence of Unicode code points.  A Document is a record      *)
(* [page_content, metadata].  Floating point values are modelled by        *)
(* integers: reranker signals and scores exactly, in units of 1/One, and   *)
(* BM25 values in fixed point (IdfScale, FracScale), rounded down.         *)
(***************************************************************************)
EXTENDS Integers, Sequences, FiniteSets, TLC

(***************************************************************************)
(* Bounds of the model.                                                    *)
(***************************************************************************)
MaxDocs == 2
MaxK == 2

(***************************************************************************)
(* Generic helpers: Python built-ins used by the code.                     *)
(***************************************************************************)
Min(a, b) == IF a <= b THEN a ELSE b
Max(a, b) == IF a >= b THEN a ELSE b

Range(s) == {s[i] : i \in 1..Len(s)}

\* s * n for a Python str
Rep(s, n) == [i \in 1..(n * Len(s)) |-> s[((i - 1) % Len(s)) + 1]]

\* s[:k] for a Python list or str, any integer k
PySlice(s, k) ==
    IF k >= 0 THEN SubSeq(s, 1, Min(k, Len(s)))
    ELSE SubSeq(s, 1, Max(Len(s) + k, 0))

\* code points c for which chr(c).strip() is empty
Whitespace ==
    {9, 10, 11, 12, 13, 28, 29, 30, 31, 32, 133, 160, 5760, 8232, 8233,
     8239, 8287, 12288} \cup (8192..8202)

\* kw in content, for Python str
Contains(kw, content) ==
    \E i \in 0..(Len(content) - Len(kw)) :
        \A j \in 1..Len(kw) : content[i + j] = kw[j]

\* any(word in content for word in words)
ContainsAny(words, content) == \E w \in words : Contains(w, content)

\* len(text.split())
SplitCount(text) ==
    Cardinality({i \in 1..Len(text) :
        /\ text[i] \notin Whitespace
        /\ (i = 1 \/ text[i - 1] \in Whitespace)})

\* list.count(x)
Count(s, x) == Cardinality({i \in 1..Len(s) : s[i] = x})

\* list.sort(key=lambda x: x[0], reverse=True): stable, descending by the
\* first component; equal keys keep their original relative order.
\* the sort without reverse=True
RECURSIVE InsertAsc(_, _)
InsertAsc(sorted, e) ==
    IF sorted = <<>> THEN <<e>>
    ELSE IF sorted[Len(sorted)][1] <= e[1] THEN Append(sorted, e)
    ELSE Append(InsertAsc(SubSeq(sorted, 1, Len(sorted) - 1), e),
                sorted[Len(sorted)])

\* a descending sort that is not stable: equal keys end up reversed
RECURSIVE InsertDescUnstable(_, _)
InsertDescUnstable(sorted, e) ==
    IF sorted = <<>> THEN <<e>>
    ELSE IF sorted[Len(sorted)][1] > e[1] THEN Append(sorted, e)
    ELSE Append(InsertDescUnstable(SubSeq(sorted, 1, Len(sorted) - 1), e),
                sorted[Len(sorted)])

RECURSIVE InsertDesc(_, _)
InsertDesc(sorted, e) ==
    IF sorted = <<>> THEN <<e>>
    ELSE IF sorted[Len(sorted)][1] >= e[1] THEN Append(sorted, e)
    ELSE Append(InsertDesc(SubSeq(sorted, 1, Len(sorted) - 1), e),
                sorted[Len(sorted)])

RECURSIVE SortDescFrom(_, _, _)
SortDescFrom(s, i, acc) ==
    IF i > Len(s) THEN acc
    ELSE SortDescFrom(s, i + 1, InsertDesc(acc, s[i]))

SortDesc(s) == SortDescFrom(s, 1, <<>>)

\* [doc for score, doc in scored]
Docs(scored) == [i \in 1..Len(scored) |-> scored[i][2]]

(***************************************************************************)
(* Words of the program and of the inputs.                                 *)
(***************************************************************************)
ZhangYiming == <<24352, 19968, 40483>>
ChuangYe == <<21019, 19994>>
GuanLi == <<31649, 29702>>
JiShu == <<25216, 26415>>
TianJiaWeiXin == <<28155, 21152, 24494, 20449>>
LingQu == <<39046, 21462>>
Comma == <<65292>>

\* Reranker.spam_keywords
spam_keywords ==
    << TianJiaWeiXin,
       LingQu,
       <<21019, 19994, 39033, 30446>>,
       <<20114, 32852, 32593, 21019, 19994>>,
       <<50, 48, 48, 20010>>,
       <<36135, 27604, 19977, 23478>>,
       <<25628, 19968, 19979, 23601, 19981, 20250, 19978, 24403>>,
       <<20445, 35777, 24180, 25910, 30410, 29575>>,
       <<31649, 29702, 36153, 29992>> >>

\* important_keywords of _compute_keyword_score
important_keywords ==
    << ZhangYiming, ChuangYe,
       <<23383, 33410, 36339, 21160>>,
       <<20170, 26085, 22836, 26465>>,
       <<25238, 38899>>,
       GuanLi, JiShu >>

\* word lists of _compute_relevance_boost
BoostStartup == {ChuangYe, <<20844, 21496>>, <<20135, 21697>>, <<24066, 22330>>}
BoostManage == {GuanLi, <<22242, 38431>>, <<32452, 32455>>, <<25991, 21270>>}
BoostTech == {JiShu, <<31639, 27861>>, <<65, 73>>, <<24320, 21457>>}

(***************************************************************************)
(* Reranker.  Signals are integers in units of 1/One (One is 1.0); One is  *)
(* divisible by 3, by 10 and by every query length up to 10, so each       *)
(* signal of the code is represented exactly.  A composite score is in     *)
(* units of 1/(WeightDen * One).                                           *)
(***************************************************************************)
One == 2520
WeightDen == 100

\* the weights with the sign of the spam penalty lost
weights_PositiveSpam ==
    [semantic_score |-> 35, keyword_score |-> 25, relevance_boost |-> 20,
     quality_score |-> 15, spam_penalty |-> 50]

\* Reranker.__init__: self.weights, in hundredths
weights ==
    [semantic_score |-> 35, keyword_score |-> 25, relevance_boost |-> 20,
     quality_score |-> 15, spam_penalty |-> -50]

\* set([char for char in text if char.strip()])
CharSet(text) == {text[i] : i \in 1..Len(text)} \ Whitespace

_compute_semantic_score(query, content) ==
    LET query_words == CharSet(query)
        content_words == CharSet(content)
    IN  IF query_words = {} THEN 0
        ELSE (Cardinality(query_words \cap content_words) * One)
                 \div Cardinality(query_words)

_compute_keyword_score(query, content) ==
    LET score == Cardinality({i \in 1..Len(important_keywords) :
                     /\ Contains(important_keywords[i], query)
                     /\ Contains(important_keywords[i], content)})
    IN  Min((score * One) \div 3, One)

_compute_relevance_boost(query, content) ==
    LET boost ==
            (IF Contains(ChuangYe, query) /\ ContainsAny(BoostStartup, content)
             THEN 3 ELSE 0)
          + (IF Contains(GuanLi, query) /\ ContainsAny(BoostManage, content)
             THEN 3 ELSE 0)
          + (IF Contains(JiShu, query) /\ ContainsAny(BoostTech, content)
             THEN 3 ELSE 0)
          + (IF Len(content) > 200 THEN 1 ELSE 0)
    IN  Min((boost * One) \div 10, One)

_compute_quality_score(content) ==
    IF Len(content) < 50 THEN (2 * One) \div 10
    ELSE IF Len(content) < 100 THEN (5 * One) \div 10
    ELSE (8 * One) \div 10

\* sum(1 for keyword in self.spam_keywords if keyword in content)
\* counts every place of the content where a spam phrase starts
spam_count_Occurrences(content) ==
    Cardinality({<<i, j>> \in (1..Len(spam_keywords)) \X (1..Len(content)) :
        /\ j + Len(spam_keywords[i]) - 1 <= Len(content)
        /\ SubSeq(content, j, j + Len(spam_keywords[i]) - 1)
               = spam_keywords[i]})

spam_count(content) ==
    Cardinality({i \in 1..Len(spam_keywords) :
        Contains(spam_keywords[i], content)})

\* the penalty without its cap
_detect_spam_content_Uncapped(content) ==
    IF spam_count(content) > 0
    THEN (spam_count(content) * 3 * One) \div 10
    ELSE 0

_detect_spam_content(content) ==
    IF spam_count(content) > 0
    THEN Min(One, (spam_count(content) * 3 * One) \div 10)
    ELSE 0

\* total_score of compute_relevance_score, before the clamp
total_score(query, content) ==
      _compute_semantic_score(query, content) * weights.semantic_score
    + _compute_keyword_score(query, content) * weights.keyword_score
    + _compute_relevance_boost(query, content) * weights.relevance_boost
    + _compute_quality_score(content) * weights.quality_score
    + _detect_spam_content(content) * weights.spam_penalty

\* the score clamped from above only
compute_relevance_score_NoFloor(query, document) ==
    Min(total_score(query, document.page_content), WeightDen * One)

compute_relevance_score(query, document) ==
    Max(0, Min(total_score(query, document.page_content), WeightDen * One))

\* scored_docs of rerank, before the sort
\* leaves out the documents that score zero
ScoreAll_DropZero(query, documents) ==
    SelectSeq([i \in 1..Len(documents) |->
                  <<compute_relevance_score(query, documents[i]), documents[i]>>],
              LAMBDA e : e[1] > 0)

ScoreAll(query, documents) ==
    [i \in 1..Len(documents) |->
        <<compute_relevance_score(query, documents[i]), documents[i]>>]

rerank(query, documents) == Docs(SortDesc(ScoreAll(query, documents)))

(***************************************************************************)
(* BM25Retriever.  idf values are fixed point in units of 1/IdfScale; the  *)
(* natural logarithm is evaluated by the series                            *)
(*   ln(x) = 2 * atanh((x-1)/(x+1)) = 2 * SUM z^(2j+1)/(2j+1).             *)
(***************************************************************************)
IdfScale == 100000
FracScale == 1000

\* BM25Retriever.__init__ defaults k1=1.5, b=0.75, as fractions
k1 == [num |-> 3, den |-> 2]
b == [num |-> 3, den |-> 4]

_tokenize(text) == SelectSeq(text, LAMBDA c : c \notin Whitespace)

RECURSIVE AtanhSeries(_, _, _, _)
AtanhSeries(p, a, c, j) ==
    IF p = 0 THEN 0
    ELSE p \div (2 * j + 1)
         + AtanhSeries((p * a * a) \div (c * c), a, c, j + 1)

\* math.log(num / den) for num >= den > 0, in units of 1/IdfScale
Ln(num, den) ==
    2 * AtanhSeries(((num - den) * IdfScale) \div (num + den),
                    num - den, num + den, 0)

\* _build_vocab: token -> set of positions (1-based) of documents holding it
_build_vocab(documents) ==
    LET words == UNION {Range(_tokenize(documents[i].page_content)) :
                            i \in 1..Len(documents)}
    IN  [w \in words |->
            {i \in 1..Len(documents) :
                w \in Range(_tokenize(documents[i].page_content))}]

\* the idf without the "+ 1": log((n - df + 0.5) / (df + 0.5)), which is
\* negative for df > n / 2
IdfOf_NoPlusOne(n, df) ==
    IF 2 * (n - df) + 1 >= 2 * df + 1
    THEN Ln(2 * (n - df) + 1, 2 * df + 1)
    ELSE 0 - Ln(2 * df + 1, 2 * (n - df) + 1)

\* the idf with df and n - df exchanged: (df + 0.5) / (n - df + 0.5) + 1
IdfOf_Swapped(n, df) == Ln(2 * n + 2, 2 * (n - df) + 1)

\* (n - df + 0.5) / (df + 0.5) + 1  =  (2n + 2) / (2df + 1)
IdfOf(n, df) == Ln(2 * n + 2, 2 * df + 1)

_compute_idf(documents, vocab) ==
    [w \in DOMAIN vocab |-> IdfOf(Len(documents), Cardinality(vocab[w]))]

\* sum(len(doc.page_content.split()) for doc in documents)
RECURSIVE SumSplit(_, _)
SumSplit(documents, i) ==
    IF i > Len(documents) THEN 0
    ELSE SplitCount(documents[i].page_content) + SumSplit(documents, i + 1)

\* BM25Retriever.__init__ for a non-empty corpus; avg_doc_len is the
\* fraction sum / n
BM25Retriever(documents) ==
    LET vocab == _build_vocab(documents)
    IN  [documents |-> documents,
         avg_doc_len |-> [sum |-> SumSplit(documents, 1),
                          n |-> Len(documents)],
         doc_lengths |-> [i \in 1..Len(documents) |->
                             SplitCount(documents[i].page_content)],
         vocab |-> vocab,
         idf |-> _compute_idf(documents, vocab)]

\* idf * numerator / denominator for one query word with tf > 0.
\* tf*(k1+1) / (tf + k1*(1 - b + b*doc_len/avg_doc_len)), both sides
\* multiplied by k1.den * b.den * avg_doc_len.sum
Bm25Term(self, idf, tf, doc_len) ==
    LET avg == self.avg_doc_len
        numerator == tf * (k1.num + k1.den) * b.den * avg.sum
        denominator == tf * k1.den * b.den * avg.sum
                       + k1.num * ((b.den - b.num) * avg.sum
                                   + b.num * doc_len * avg.n)
    IN  (idf * ((numerator * FracScale) \div denominator)) \div FracScale

RECURSIVE Bm25Sum(_, _, _, _)
Bm25Sum(self, query_words, doc_index, j) ==
    IF j > Len(query_words) THEN 0
    ELSE LET word == query_words[j]
             doc_words == _tokenize(self.documents[doc_index].page_content)
             tf == Count(doc_words, word)
             rest == Bm25Sum(self, query_words, doc_index, j + 1)
         IN  IF word \notin DOMAIN self.vocab THEN rest
             ELSE IF tf = 0 THEN rest
             ELSE Bm25Term(self, self.idf[word], tf,
                           self.doc_lengths[doc_index]) + rest

_compute_bm25_score(self, query, doc_index) ==
    Bm25Sum(self, _tokenize(query), doc_index, 1)

\* the list scores of retrieve, before the sort
\* keeps the documents that score zero
Bm25Scores_KeepZero(self, query) ==
    LET all == [i \in 1..Len(self.documents) |->
                   <<_compute_bm25_score(self, query, i), self.documents[i]>>]
    IN  SelectSeq(all, LAMBDA e : e[1] >= 0)

Bm25Scores(self, query) ==
    LET all == [i \in 1..Len(self.documents) |->
                   <<_compute_bm25_score(self, query, i), self.documents[i]>>]
    IN  SelectSeq(all, LAMBDA e : e[1] > 0)

retrieve(self, query, k) == Docs(PySlice(SortDesc(Bm25Scores(self, query)), k))

(***************************************************************************)
(* HybridRerankRetriever._merge_and_deduplicate.  hash() of a str is a     *)
(* bounded integer: it is modelled by a polynomial hash modulo HashMod.     *)
(***************************************************************************)
PrefixLen == 100
HashMul == 31
HashMod == 16777216

\* the whole content as the key of deduplication
Prefix_Whole(content) == content

Prefix(content) == SubSeq(content, 1, Min(PrefixLen, Len(content)))

\* multiplier of the character at position i
HashWeight(i) == ((((i * i) * HashMul) + i) % 4093) + 1

\* contribution of the characters lo..hi of s to its hash value
RECURSIVE HashFrom(_, _, _)
HashFrom(s, lo, hi) ==
    IF lo > hi THEN 0
    ELSE IF lo = hi THEN (s[lo] * HashWeight(lo)) % HashMod
    ELSE LET mid == (lo + hi) \div 2
         IN  (HashFrom(s, lo, mid) + HashFrom(s, mid + 1, hi)) % HashMod

\* hash(s) for a str
hash(s) == (HashFrom(s, 1, Len(s)) + Len(s)) % HashMod

\* the loop with merged_docs.insert(0, doc) in place of append
RECURSIVE MergeLoop_Prepend(_, _, _)
MergeLoop_Prepend(docs, i, st) ==
    IF i > Len(docs) THEN st
    ELSE LET content_hash == hash(Prefix(docs[i].page_content))
         IN  IF content_hash \notin st.seen_content
             THEN MergeLoop_Prepend(docs, i + 1,
                      [seen_content |-> st.seen_content \cup {content_hash},
                       merged_docs |-> <<docs[i]>> \o st.merged_docs])
             ELSE MergeLoop_Prepend(docs, i + 1, st)

\* one "for doc in docs" loop of _merge_and_deduplicate
RECURSIVE MergeLoop(_, _, _)
MergeLoop(docs, i, st) ==
    IF i > Len(docs) THEN st
    ELSE LET content_hash == hash(Prefix(docs[i].page_content))
         IN  IF content_hash \notin st.seen_content
             THEN MergeLoop(docs, i + 1,
                      [seen_content |-> st.seen_content \cup {content_hash},
                       merged_docs |-> Append(st.merged_docs, docs[i])])
             ELSE MergeLoop(docs, i + 1, st)

_merge_and_deduplicate(semantic_docs, bm25_docs) ==
    LET st0 == [seen_content |-> {}, merged_docs |-> <<>>]
        st1 == MergeLoop(semantic_docs, 1, st0)
        st2 == MergeLoop(bm25_docs, 1, st1)
    IN  st2.merged_docs

(***************************************************************************)
(* Inputs: documents of the vector store and queries.                      *)
(***************************************************************************)
Meta(source, page, chunk) == [source |-> source, page |-> page, chunk |-> chunk]

Document(page_content, metadata) ==
    [page_content |-> page_content, metadata |-> metadata]

\* 10 characters; ten repetitions are a 100 character prefix
Phrase10 == ZhangYiming \o ChuangYe \o GuanLi \o JiShu \o Comma

RECURSIVE Concat(_, _)
Concat(ss, i) == IF i > Len(ss) THEN <<>> ELSE ss[i] \o Concat(ss, i + 1)

CleanText ==
    <<24352, 19968, 40483, 35848, 21019, 19994, 34701, 36164, 19982, 22242,
      38431, 31649, 29702, 65292, 20844, 21496, 20135, 21697, 24066, 22330,
      31574, 30053, 28165, 26224>>

SpamText ==
    <<28155, 21152, 24494, 20449, 39046, 21462, 21019, 19994, 39033, 30446,
      50, 48, 48, 20010, 65292, 36135, 27604, 19977, 23478>>

\* the clean document of the two-document scenario
DocClean == Document(CleanText, Meta("a.pdf", 1, 1))
\* the same chunk text stored from a second file
DocCleanCopy == Document(CleanText, Meta("b.pdf", 1, 1))
\* the promotional document of the two-document scenario (5 spam phrases)
DocSpam == Document(SpamText, Meta("a.pdf", 1, 2))
\* as DocClean for the scenario query in every positive signal, 2 spam phrases
DocPromo ==
    Document(ZhangYiming \o ChuangYe \o TianJiaWeiXin \o LingQu,
             Meta("a.pdf", 2, 1))
\* 201 characters, every positive signal at its maximum for QueryMax
DocLongA == Document(Rep(Phrase10, 20) \o <<30002>>, Meta("c.pdf", 1, 1))
\* the first 200 characters of DocLongA, then blank separated words and
\* every spam phrase
DocLongB ==
    Document(Rep(Phrase10, 20) \o <<32, 65, 73, 32, 24320, 21457, 32>>
                 \o Concat(spam_keywords, 1),
             Meta("c.pdf", 2, 1))

DocPool == {DocClean, DocCleanCopy, DocSpam, DocPromo, DocLongA, DocLongB}

\* one spam phrase, twice
DocRepeat == Document(ZhangYiming \o LingQu \o LingQu, Meta("r.pdf", 1, 1))
\* two spam phrases, three occurrences
DocRepeatTwo ==
    Document(TianJiaWeiXin \o LingQu \o ChuangYe \o TianJiaWeiXin,
             Meta("r.pdf", 1, 2))

\* the query of the two-document scenario
QueryScenario == ZhangYiming \o ChuangYe \o <<32463, 21382>>
\* triggers every positive signal
QueryMax == ZhangYiming \o ChuangYe \o GuanLi \o JiShu
\* no character of it occurs in any document
QueryNone == <<38646>>
QueryEmpty == <<>>
\* a blank and a newline
QueryBlank == <<32, 10>>

Queries == {QueryScenario, QueryMax, QueryNone, QueryEmpty, QueryBlank}

Ks == (-1)..MaxK

Injective(s) == \A i, j \in 1..Len(s) : s[i] = s[j] => i = j

\* contents of the persisted collection: distinct chunks, in insertion order
Corpora ==
    UNION {{s \in [1..n -> DocPool] : Injective(s)} : n \in 0..MaxDocs}

Perms(n) == {p \in [1..n -> 1..n] : Injective(p)}

\* the candidates Reranker.rerank is called with directly
RerankPool == {DocClean, DocSpam, DocPromo, DocRepeat, DocRepeatTwo}

MaxCandidates == 2

RerankInputs ==
    UNION {{s \in [1..n -> RerankPool] : Injective(s)} : n \in 0..MaxCandidates}

(***************************************************************************)
(* State.                                                                  *)
(***************************************************************************)
VARIABLES
    store,          \* documents of the Chroma collection in vector_db_path
    pc,             \* position of the caller in get_hybrid_rerank_retriever / invoke
    bm25_retriever, \* HybridRerankRetriever.bm25_retriever (a BM25Retriever)
    query,          \* argument query of invoke
    k,              \* argument k of invoke
    semantic_docs,  \* invoke: semantic_docs
    scores,         \* retrieve: scores, after the sort
    bm25_docs,      \* invoke: bm25_docs
    all_docs,       \* invoke: all_docs
    scored_docs,    \* rerank: scored_docs, after the sort
    reranked_docs,  \* invoke: reranked_docs
    result,         \* value returned by invoke
    semantic_calls, \* calls of semantic_retriever.invoke made by this invoke
    semantic_error, \* whether semantic_retriever.invoke raised
    build_pc,       \* position of the task running build_vector_store
    build_docs,     \* build_vector_store: docs
    log,            \* event last logged by build_vector_store
    lock,           \* whether _VECTOR_BUILD_LOCK is held
    generations,    \* every collection a build has written out in full
    spam_penalty,   \* compute_relevance_score: spam_penalty, per document
    _states,        \* AuthStateManager._states: token -> (provider, created_at, ttl)
    clock,          \* the value time.time() returns
    auth_call,      \* per caller: the validate_state call it is in
    issued,         \* every token create_state has returned, with its entry
    accepted,       \* per token: the validate_state calls that succeeded
    api_keys,       \* settings.api_keys
    authorization,  \* require_api_key: header Authorization
    x_api_key,      \* require_api_key: header X-API-Key
    api_pc,         \* outcome of require_api_key
    memory,         \* rows of the table memory, by ascending id
    chat_req,       \* per chat request: endpoint and position in its handler
    data_dir,       \* the PDF files in settings.data_dir
    pending,        \* background tasks added and not yet started
    vector_dir      \* whether the directory vector_db_path exists

vars == <<store, pc, bm25_retriever, query, k, semantic_docs, scores,
          bm25_docs, all_docs, scored_docs, reranked_docs, result,
          semantic_calls, semantic_error, build_pc, build_docs, log, lock,
          generations, spam_penalty, _states, clock, auth_call, issued,
          accepted, api_keys, authorization, x_api_key, api_pc, memory,
          chat_req, data_dir, pending,
          vector_dir>>

callVars == <<query, k, semantic_docs, scores, bm25_docs, all_docs,
              scored_docs, reranked_docs, result, semantic_calls,
              semantic_error, spam_penalty>>

authVars == <<_states, clock, auth_call, issued, accepted>>

apiVars == <<api_keys, authorization, x_api_key, api_pc>>

chatVars == <<memory, chat_req>>

kbVars == <<data_dir, pending>>

\* the state of the other components of the application
extVars == <<authVars, apiVars, chatVars, kbVars>>

\* Python's None
None == <<-1>>

MaxRequests == 2

\* the chat requests in flight
Requests == 1..MaxRequests

NoRequest == [endpoint |-> "none", pc |-> "idle"]

\* the tasks that call the AuthStateManager concurrently
Callers == {1, 2}

NoCall ==
    [pc |-> "idle", provider |-> "", token |-> 0, now |-> 0,
     stored |-> <<>>]

\* the other components at rest
ExtIdle ==
    /\ _states = <<>>
    /\ clock = 0
    /\ auth_call = [c \in Callers |-> NoCall]
    /\ issued = <<>>
    /\ accepted = <<>>
    /\ api_keys = <<>>
    /\ authorization = None
    /\ x_api_key = None
    /\ api_pc = "idle"
    /\ memory = <<>>
    /\ chat_req = [r \in Requests |-> NoRequest]
    /\ data_dir = {}
    /\ pending = <<>>

buildVars == <<build_pc, build_docs, log, lock, generations, vector_dir>>

\* search_kwargs={"k": 15} of the semantic retriever
FanOut == 15

\* no BM25Retriever constructed yet
NoRetriever ==
    [documents |-> <<>>, avg_doc_len |-> [sum |-> 0, n |-> 0],
     doc_lengths |-> <<>>, vocab |-> <<>>, idf |-> <<>>]

Init ==
    /\ store \in Corpora
    /\ pc = "idle"
    /\ bm25_retriever = NoRetriever
    /\ query = <<>>
    /\ k = 0
    /\ semantic_docs = <<>>
    /\ scores = <<>>
    /\ bm25_docs = <<>>
    /\ all_docs = <<>>
    /\ scored_docs = <<>>
    /\ reranked_docs = <<>>
    /\ result = <<>>
    /\ semantic_calls = 0
    /\ semantic_error = FALSE
    /\ build_pc = "idle"
    /\ build_docs = <<>>
    /\ log = "none"
    /\ lock = FALSE
    /\ vector_dir = (store # <<>>)
    /\ generations = {store}
    /\ spam_penalty = <<>>
    /\ ExtIdle

\* constructs the index over whatever the collection holds
get_hybrid_rerank_retriever_NoCheck ==
    /\ pc = "idle"
    /\ pc' = "ready"
    /\ bm25_retriever' = BM25Retriever(store)
    /\ UNCHANGED <<extVars, store, callVars, buildVars>>

\* get_hybrid_rerank_retriever: store.get() and BM25Retriever(documents);
\* on an empty collection len(documents) is 0 and __init__ raises
\* ZeroDivisionError
get_hybrid_rerank_retriever ==
    /\ pc = "idle"
    /\ IF Len(store) = 0
       THEN /\ pc' = "ZeroDivisionError"
            /\ UNCHANGED bm25_retriever
       ELSE /\ pc' = "ready"
            /\ bm25_retriever' = BM25Retriever(store)
    /\ UNCHANGED <<extVars, store, callVars, buildVars>>

\* the documents the semantic retriever can return: the FanOut nearest of
\* the collection under some similarity ranking
SemanticHits ==
    {PySlice([i \in 1..Len(store) |-> store[p[i]]], FanOut) :
        p \in Perms(Len(store))}

\* invoke, step 1: self.semantic_retriever.invoke(query)
invoke_semantic ==
    /\ pc = "ready"
    /\ \E q \in Queries, kk \in Ks, hits \in SemanticHits :
        /\ query' = q
        /\ k' = kk
        /\ semantic_docs' = hits
    /\ semantic_calls' = semantic_calls + 1
    /\ pc' = "semantic"
    /\ UNCHANGED <<extVars, spam_penalty,
                   store, bm25_retriever, scores, bm25_docs, all_docs,
                   scored_docs, reranked_docs, result, semantic_error,
                   buildVars>>

\* the failure of the search is swallowed and the call goes on with no
\* semantic hit
invoke_semantic_raises_Fallback ==
    /\ pc = "ready"
    /\ \E q \in Queries, kk \in Ks :
        /\ query' = q
        /\ k' = kk
    /\ semantic_calls' = semantic_calls + 1
    /\ semantic_error' = TRUE
    /\ semantic_docs' = <<>>
    /\ pc' = "semantic"
    /\ UNCHANGED <<extVars, spam_penalty,
                   store, bm25_retriever, scores, bm25_docs, all_docs,
                   scored_docs, reranked_docs, result, buildVars>>

\* invoke, step 1 when self.semantic_retriever.invoke(query) raises: invoke
\* has no handler, the exception leaves it
invoke_semantic_raises ==
    /\ pc = "ready"
    /\ \E q \in Queries, kk \in Ks :
        /\ query' = q
        /\ k' = kk
    /\ semantic_calls' = semantic_calls + 1
    /\ semantic_error' = TRUE
    /\ pc' = "Exception"
    /\ UNCHANGED <<extVars, spam_penalty,
                   store, bm25_retriever, semantic_docs, scores, bm25_docs,
                   all_docs, scored_docs, reranked_docs, result, buildVars>>

\* step 2 with the vocabulary read by subscript: the defaultdict gets an
\* empty entry for every query token it does not hold
invoke_bm25_TouchVocab ==
    /\ pc = "semantic"
    /\ scores' = SortDesc(Bm25Scores(bm25_retriever, query))
    /\ bm25_docs' = Docs(PySlice(scores', k))
    /\ bm25_retriever' =
           [bm25_retriever EXCEPT !.vocab =
               LET old == bm25_retriever.vocab
               IN  [w \in DOMAIN old \cup Range(_tokenize(query)) |->
                       IF w \in DOMAIN old THEN old[w] ELSE {}]]
    /\ pc' = "keyword"
    /\ UNCHANGED <<extVars, spam_penalty,
                   buildVars, semantic_calls, semantic_error,
                   store, query, k, semantic_docs, all_docs,
                   scored_docs, reranked_docs, result>>

\* invoke, step 2: self.bm25_retriever.retrieve(query, k=k)
invoke_bm25 ==
    /\ pc = "semantic"
    /\ scores' = SortDesc(Bm25Scores(bm25_retriever, query))
    /\ bm25_docs' = Docs(PySlice(scores', k))
    /\ pc' = "keyword"
    /\ UNCHANGED <<extVars, spam_penalty,
                   buildVars, semantic_calls, semantic_error,
                   store, bm25_retriever, query, k, semantic_docs, all_docs,
                   scored_docs, reranked_docs, result>>

\* step 3 with the keyword hits merged first
invoke_merge_KeywordFirst ==
    /\ pc = "keyword"
    /\ all_docs' = _merge_and_deduplicate(bm25_docs, semantic_docs)
    /\ pc' = "merged"
    /\ UNCHANGED <<extVars, spam_penalty,
                   buildVars, semantic_calls, semantic_error,
                   store, bm25_retriever, query, k, semantic_docs, scores,
                   bm25_docs, scored_docs, reranked_docs, result>>

\* invoke, step 3: self._merge_and_deduplicate(semantic_docs, bm25_docs)
invoke_merge ==
    /\ pc = "keyword"
    /\ all_docs' = _merge_and_deduplicate(semantic_docs, bm25_docs)
    /\ pc' = "merged"
    /\ UNCHANGED <<extVars, spam_penalty,
                   buildVars, semantic_calls, semantic_error,
                   store, bm25_retriever, query, k, semantic_docs, scores,
                   bm25_docs, scored_docs, reranked_docs, result>>

\* step 4 with the list it is given sorted in place
invoke_rerank_SortsInput ==
    /\ pc = "merged"
    /\ scored_docs' = SortDesc(ScoreAll(query, all_docs))
    /\ reranked_docs' = Docs(scored_docs')
    /\ spam_penalty' = [i \in 1..Len(all_docs) |->
                           _detect_spam_content(all_docs[i].page_content)]
    /\ all_docs' = reranked_docs'
    /\ pc' = "reranked"
    /\ UNCHANGED <<extVars, buildVars, semantic_calls, semantic_error,
                   store, bm25_retriever, query, k, semantic_docs, scores,
                   bm25_docs, result>>

\* invoke, step 4: self.reranker.rerank(query, all_docs)
invoke_rerank ==
    /\ pc = "merged"
    /\ scored_docs' = SortDesc(ScoreAll(query, all_docs))
    /\ reranked_docs' = Docs(scored_docs')
    /\ spam_penalty' = [i \in 1..Len(all_docs) |->
                           _detect_spam_content(all_docs[i].page_content)]
    /\ pc' = "reranked"
    /\ UNCHANGED <<extVars, buildVars, semantic_calls, semantic_error,
                   store, bm25_retriever, query, k, semantic_docs, scores,
                   bm25_docs, all_docs, result>>

\* invoke, step 5: return reranked_docs[:k]
invoke_return ==
    /\ pc = "reranked"
    /\ result' = PySlice(reranked_docs, k)
    /\ pc' = "returned"
    /\ UNCHANGED <<extVars, spam_penalty,
                   buildVars, semantic_calls, semantic_error,
                   store, bm25_retriever, query, k, semantic_docs, scores,
                   bm25_docs, all_docs, scored_docs, reranked_docs>>

\* the caller is back from invoke and calls it again on the same retriever
invoke_again ==
    /\ pc \in {"returned", "Exception"}
    /\ pc' = "ready"
    /\ query' = <<>>
    /\ k' = 0
    /\ semantic_docs' = <<>>
    /\ scores' = <<>>
    /\ bm25_docs' = <<>>
    /\ all_docs' = <<>>
    /\ scored_docs' = <<>>
    /\ reranked_docs' = <<>>
    /\ result' = <<>>
    /\ semantic_calls' = 0
    /\ semantic_error' = FALSE
    /\ spam_penalty' = <<>>
    /\ UNCHANGED <<extVars, store, bm25_retriever, buildVars>>

(***************************************************************************)
(* build_vector_store, run as a background task next to the retrievals.    *)
(* A file is what PdfReader, clean_text and text_splitter make of it: per  *)
(* page the list of chunks.                                                *)
(***************************************************************************)
\* str.strip(): the text without leading and trailing whitespace
strip(text) ==
    LET solid == {i \in 1..Len(text) : text[i] \notin Whitespace}
    IN  IF solid = {} THEN <<>>
        ELSE SubSeq(text, CHOOSE i \in solid : \A j \in solid : i <= j,
                          CHOOSE i \in solid : \A j \in solid : i >= j)

\* str.isalnum() of one character: digits, Latin letters, CJK ideographs
isalnum(c) ==
    \/ c \in 48..57
    \/ c \in 65..90
    \/ c \in 97..122
    \/ c \in 19968..40959

\* the characters of the literal of line 190
MeaningfulPunctuation == {65292, 12290, 65281, 65311, 65307, 65306}

meaningful_chars(chunk) ==
    Cardinality({i \in 1..Len(chunk) :
        isalnum(chunk[i]) \/ chunk[i] \in MeaningfulPunctuation})

\* smallest length a chunk must exceed
MinChunkLen == 100

\* the filter of lines 188-191; meaningful_chars / len(chunk) > 0.6
KeepChunk(chunk) ==
    /\ Len(strip(chunk)) > MinChunkLen
    /\ meaningful_chars(chunk) * 10 > 6 * Len(chunk)

\* the documents of one page
PageDocs(file, page_num) ==
    LET page_docs == file.pages[page_num]
        all == [chunk_num \in 1..Len(page_docs) |->
                   Document(page_docs[chunk_num],
                            Meta(file.name, page_num, chunk_num))]
    IN  SelectSeq(all, LAMBDA d : KeepChunk(d.page_content))

RECURSIVE FileDocs(_, _)
FileDocs(file, page_num) ==
    IF page_num > Len(file.pages) THEN <<>>
    ELSE PageDocs(file, page_num) \o FileDocs(file, page_num + 1)

\* docs of build_vector_store(files)
RECURSIVE BuildDocs(_, _)
BuildDocs(files, i) ==
    IF i > Len(files) THEN <<>>
    ELSE FileDocs(files[i], 1) \o BuildDocs(files, i + 1)

\* a page without text, a page whose chunk is too short, a page whose chunk
\* is long enough but half punctuation
FileNoise ==
    [name |-> "n.pdf",
     pages |-> << <<>>, <<CleanText>>, <<Rep(<<45, 24352>>, 60)>> >>]
\* two pages of one good chunk each
FileLong ==
    [name |-> "c.pdf",
     pages |-> << <<DocLongA.page_content>>, <<DocLongB.page_content>> >>]
\* one page, a short chunk and a good one
FileMixed ==
    [name |-> "d.pdf", pages |-> << <<CleanText, DocLongA.page_content>> >>]

\* the arguments build_vector_store is called with
Uploads == {<<FileNoise>>, <<FileLong>>, <<FileNoise, FileMixed>>}

\* the collections a build can have left in vector_db_path, and none
BuildStores == {<<>>} \cup ({BuildDocs(u, 1) : u \in Uploads} \ {<<>>})

InitBuild ==
    /\ store \in BuildStores
    /\ pc = "idle"
    /\ bm25_retriever = NoRetriever
    /\ query = <<>>
    /\ k = 0
    /\ semantic_docs = <<>>
    /\ scores = <<>>
    /\ bm25_docs = <<>>
    /\ all_docs = <<>>
    /\ scored_docs = <<>>
    /\ reranked_docs = <<>>
    /\ result = <<>>
    /\ semantic_calls = 0
    /\ semantic_error = FALSE
    /\ build_pc = "idle"
    /\ build_docs = <<>>
    /\ log = "none"
    /\ lock = FALSE
    /\ vector_dir = (store # <<>>)
    /\ generations = {store}
    /\ spam_penalty = <<>>
    /\ ExtIdle

\* Reranker.rerank(query, documents) called on its own
InitRerank ==
    /\ store = <<>>
    /\ pc = "rerank"
    /\ bm25_retriever = NoRetriever
    /\ query \in Queries
    /\ k = 0
    /\ semantic_docs = <<>>
    /\ scores = <<>>
    /\ bm25_docs = <<>>
    /\ all_docs \in RerankInputs
    /\ scored_docs = <<>>
    /\ reranked_docs = <<>>
    /\ result = <<>>
    /\ semantic_calls = 0
    /\ semantic_error = FALSE
    /\ build_pc = "idle"
    /\ build_docs = <<>>
    /\ log = "none"
    /\ lock = FALSE
    /\ vector_dir = (store # <<>>)
    /\ generations = {store}
    /\ spam_penalty = <<>>
    /\ ExtIdle

rerank_call ==
    /\ pc = "rerank"
    /\ scored_docs' = SortDesc(ScoreAll(query, all_docs))
    /\ reranked_docs' = Docs(scored_docs')
    /\ spam_penalty' = [i \in 1..Len(all_docs) |->
                           _detect_spam_content(all_docs[i].page_content)]
    /\ pc' = "rerank_done"
    /\ UNCHANGED <<extVars, buildVars, semantic_calls, semantic_error,
                   store, bm25_retriever, query, k, semantic_docs, scores,
                   bm25_docs, all_docs, result>>

NextRerank == rerank_call

SpecRerank == InitRerank /\ [][NextRerank]_vars

(***************************************************************************)
(* AuthStateManager (auth.py).  Tokens are the numbers 1, 2, ... in the    *)
(* order uuid4 hands them out; 0 stands for a missing state parameter.     *)
(* Time is counted in units of the clock.                                  *)
(***************************************************************************)
retrievalVars == <<store, pc, bm25_retriever, callVars, buildVars>>

notAuthVars == <<retrievalVars, apiVars, chatVars, kbVars>>

MaxTokens == 1
MaxClock == 2

Providers == {"google", "wechat"}

\* AuthStateManager._default_ttl_seconds, in clock units
default_ttl_seconds == 2

\* a state parameter no create_state call has returned
UnknownToken == MaxTokens + 1

\* the ttl_seconds create_state is called with; 0 is None
TtlArgs == {0, 1}

\* AuthStateManager._cleanup applied to a store
_cleanup(states, now) ==
    LET live == {t \in DOMAIN states :
                    ~(now - states[t].created_at > states[t].ttl)}
    IN  [t \in live |-> states[t]]

InitAuth ==
    /\ store = <<>>
    /\ pc = "idle"
    /\ bm25_retriever = NoRetriever
    /\ query = <<>>
    /\ k = 0
    /\ semantic_docs = <<>>
    /\ scores = <<>>
    /\ bm25_docs = <<>>
    /\ all_docs = <<>>
    /\ scored_docs = <<>>
    /\ reranked_docs = <<>>
    /\ result = <<>>
    /\ semantic_calls = 0
    /\ semantic_error = FALSE
    /\ build_pc = "idle"
    /\ build_docs = <<>>
    /\ log = "none"
    /\ lock = FALSE
    /\ vector_dir = (store # <<>>)
    /\ generations = {store}
    /\ spam_penalty = <<>>
    /\ ExtIdle

\* time passes
tick ==
    /\ clock < MaxClock
    /\ clock' = clock + 1
    /\ UNCHANGED <<notAuthVars, _states, auth_call, issued, accepted>>

\* create_state(provider, ttl_seconds)
create_state ==
    /\ Len(issued) < MaxTokens
    /\ \E provider \in Providers, ttl_seconds \in TtlArgs :
          LET ttl == IF ttl_seconds # 0 THEN ttl_seconds
                     ELSE default_ttl_seconds
              token == Len(issued) + 1
              now == clock
              entry == [provider |-> provider, created_at |-> now,
                        ttl |-> ttl]
              kept == _cleanup(_states, now)
          IN  /\ _states' = [t \in DOMAIN kept \cup {token} |->
                                IF t = token THEN entry ELSE kept[t]]
              /\ issued' = Append(issued, entry)
              /\ accepted' = Append(accepted, 0)
    /\ UNCHANGED <<notAuthVars, clock, auth_call>>

\* validate_state(provider, token), lines 49-55: a missing token is
\* rejected, otherwise the time is read
validate_begin(c) ==
    /\ auth_call[c].pc = "idle"
    /\ \E provider \in Providers,
          token \in {0, UnknownToken} \cup (1..Len(issued)) :
          auth_call' =
              [auth_call EXCEPT ![c] =
                  [pc |-> IF token = 0 THEN "400" ELSE "timed",
                   provider |-> provider, token |-> token,
                   now |-> IF token = 0 THEN 0 ELSE clock,
                   stored |-> <<>>]]
    /\ UNCHANGED <<notAuthVars, _states, clock, issued, accepted>>

\* the store is read and left as it is
validate_pop_Peek(c) ==
    /\ auth_call[c].pc = "timed"
    /\ LET kept == _cleanup(_states, auth_call[c].now)
           token == auth_call[c].token
       IN  /\ _states' = kept
           /\ auth_call' =
                  [auth_call EXCEPT
                      ![c].pc = "popped",
                      ![c].stored = IF token \in DOMAIN kept
                                    THEN <<kept[token]>> ELSE <<>>]
    /\ UNCHANGED <<notAuthVars, clock, issued, accepted>>

\* validate_state, lines 56-58, under self._lock: _cleanup(now) and
\* self._states.pop(token, None)
validate_pop(c) ==
    /\ auth_call[c].pc = "timed"
    /\ LET kept == _cleanup(_states, auth_call[c].now)
           token == auth_call[c].token
       IN  /\ _states' = [t \in DOMAIN kept \ {token} |-> kept[t]]
           /\ auth_call' =
                  [auth_call EXCEPT
                      ![c].pc = "popped",
                      ![c].stored = IF token \in DOMAIN kept
                                    THEN <<kept[token]>> ELSE <<>>]
    /\ UNCHANGED <<notAuthVars, clock, issued, accepted>>

\* the provider of the stored entry is not compared
validate_check_AnyProvider(c) ==
    /\ auth_call[c].pc = "popped"
    /\ LET call == auth_call[c]
           ok == /\ call.stored # <<>>
                 /\ ~(call.now - call.stored[1].created_at
                         > call.stored[1].ttl)
       IN  /\ auth_call' = [auth_call EXCEPT
                               ![c].pc = IF ok THEN "ok" ELSE "400"]
           /\ accepted' = IF ok
                           THEN [accepted EXCEPT ![call.token] = @ + 1]
                           ELSE accepted
    /\ UNCHANGED <<notAuthVars, _states, clock, issued>>

\* validate_state, lines 60-71: HTTP 400 unless an entry was stored for
\* this provider and is not older than its ttl
validate_check(c) ==
    /\ auth_call[c].pc = "popped"
    /\ LET call == auth_call[c]
           ok == /\ call.stored # <<>>
                 /\ call.stored[1].provider = call.provider
                 /\ ~(call.now - call.stored[1].created_at
                         > call.stored[1].ttl)
       IN  /\ auth_call' = [auth_call EXCEPT
                               ![c].pc = IF ok THEN "ok" ELSE "400"]
           /\ accepted' = IF ok
                           THEN [accepted EXCEPT ![call.token] = @ + 1]
                           ELSE accepted
    /\ UNCHANGED <<notAuthVars, _states, clock, issued>>

\* the call is over; the caller is free for another
validate_end(c) ==
    /\ auth_call[c].pc \in {"ok", "400"}
    /\ auth_call' = [auth_call EXCEPT ![c] = NoCall]
    /\ UNCHANGED <<notAuthVars, _states, clock, issued, accepted>>

NextAuth ==
    \/ tick
    \/ create_state
    \/ \E c \in Callers : validate_begin(c)
    \/ \E c \in Callers : validate_pop(c)
    \/ \E c \in Callers : validate_check(c)
    \/ \E c \in Callers : validate_end(c)

SpecAuth == InitAuth /\ [][NextAuth]_vars

(***************************************************************************)
(* require_api_key (main.py).  Header values and keys are strings, as      *)
(* sequences of code points.                                               *)
(***************************************************************************)
\* the retriever and the build at rest, nothing persisted
RetrievalIdle ==
    /\ store = <<>>
    /\ pc = "idle"
    /\ bm25_retriever = NoRetriever
    /\ query = <<>>
    /\ k = 0
    /\ semantic_docs = <<>>
    /\ scores = <<>>
    /\ bm25_docs = <<>>
    /\ all_docs = <<>>
    /\ scored_docs = <<>>
    /\ reranked_docs = <<>>
    /\ result = <<>>
    /\ semantic_calls = 0
    /\ semantic_error = FALSE
    /\ build_pc = "idle"
    /\ build_docs = <<>>
    /\ log = "none"
    /\ lock = FALSE
    /\ vector_dir = (store # <<>>)
    /\ generations = {store}
    /\ spam_penalty = <<>>

\* str.lower() on the Latin letters
lower(text) ==
    [i \in 1..Len(text) |->
        IF text[i] \in 65..90 THEN text[i] + 32 ELSE text[i]]

startswith(text, prefix) ==
    /\ Len(text) >= Len(prefix)
    /\ SubSeq(text, 1, Len(prefix)) = prefix

\* text.split(" ", 1)[1] of a text that holds a blank
AfterFirstBlank(text) ==
    LET first == CHOOSE i \in 1..Len(text) :
                     /\ text[i] = 32
                     /\ \A j \in 1..(i - 1) : text[j] # 32
    IN  SubSeq(text, first + 1, Len(text))

\* "bearer "
BearerPrefix == <<98, 101, 97, 114, 101, 114, 32>>

\* truth value of an Optional[str]
Truthy(text) == text # None /\ text # <<>>

\* the Authorization header is looked at first
_extract_api_key_BearerFirst(auth, explicit_key) ==
    IF Truthy(auth) /\ startswith(lower(auth), BearerPrefix)
    THEN strip(AfterFirstBlank(auth))
    ELSE IF Truthy(explicit_key) THEN strip(explicit_key)
    ELSE None

_extract_api_key(auth, explicit_key) ==
    IF Truthy(explicit_key) THEN strip(explicit_key)
    ELSE IF Truthy(auth) /\ startswith(lower(auth), BearerPrefix)
    THEN strip(AfterFirstBlank(auth))
    ELSE None

\* "k1", "k2", "x"
Key1 == <<107, 49>>
Key2 == <<107, 50>>
KeyBad == <<120>>

KeySettings == {<<>>, <<Key1>>, <<Key1, Key2>>}

\* absent, empty, a key, a key between blanks, not a key
XApiKeyHeaders == {None, <<>>, Key1, <<32>> \o Key2 \o <<32>>, KeyBad}

\* absent, "Bearer k1", "bearer  k2 ", "Bearer x", "Basic k1", "k1"
AuthorizationHeaders ==
    {None,
     <<66, 101, 97, 114, 101, 114, 32>> \o Key1,
     <<98, 101, 97, 114, 101, 114, 32, 32>> \o Key2 \o <<32>>,
     <<66, 101, 97, 114, 101, 114, 32>> \o KeyBad,
     <<66, 97, 115, 105, 99, 32>> \o Key1,
     Key1}

InitApi ==
    /\ RetrievalIdle
    /\ _states = <<>>
    /\ clock = 0
    /\ auth_call = [c \in Callers |-> NoCall]
    /\ issued = <<>>
    /\ accepted = <<>>
    /\ api_keys \in KeySettings
    /\ authorization \in AuthorizationHeaders
    /\ x_api_key \in XApiKeyHeaders
    /\ api_pc = "called"
    /\ memory = <<>>
    /\ chat_req = [r \in Requests |-> NoRequest]
    /\ data_dir = {}
    /\ pending = <<>>

require_api_key ==
    /\ api_pc = "called"
    /\ LET candidate == _extract_api_key(authorization, x_api_key)
       IN  api_pc' =
               IF api_keys = <<>> THEN "admitted"
               ELSE IF Truthy(candidate) /\ candidate \in Range(api_keys)
               THEN "admitted"
               ELSE "401"
    /\ UNCHANGED <<kbVars, retrievalVars, authVars, chatVars, api_keys,
                   authorization, x_api_key>>

NextApi == require_api_key

SpecApi == InitApi /\ [][NextApi]_vars

(***************************************************************************)
(* /chat, /chat_stream and /reset_memory (main.py) over SQLiteMemory       *)
(* (memory.py).  A row of the chat table is [role, request]; rows are in   *)
(* the order of their autoincrement id.  The handlers run on one event     *)
(* loop: /chat and /reset_memory hold no await and run as one step each,   *)
(* /chat_stream gives the loop back between its chunks.                    *)
(***************************************************************************)
Row(role, r) == [role |-> role, request |-> r]

\* SQLiteMemory.save
save(rows, role, r) == Append(rows, Row(role, r))

\* SQLiteMemory.reset
reset(rows) == <<>>

InitChat ==
    /\ RetrievalIdle
    /\ ExtIdle

\* POST /chat: the whole handler; the pipeline returns or raises
chat(r) ==
    /\ chat_req[r] = NoRequest
    /\ \E raises \in BOOLEAN :
          IF raises
          THEN /\ memory' = save(memory, "user", r)
               /\ chat_req' = [chat_req EXCEPT
                                  ![r] = [endpoint |-> "chat", pc |-> "500"]]
          ELSE /\ memory' = save(save(memory, "user", r), "assistant", r)
               /\ chat_req' = [chat_req EXCEPT
                                  ![r] = [endpoint |-> "chat", pc |-> "done"]]
    /\ UNCHANGED <<kbVars, retrievalVars, authVars, apiVars>>

\* POST /chat_stream up to the return of the StreamingResponse
chat_stream(r) ==
    /\ chat_req[r] = NoRequest
    /\ memory' = save(memory, "user", r)
    /\ chat_req' = [chat_req EXCEPT
                       ![r] = [endpoint |-> "chat_stream", pc |-> "streaming"]]
    /\ UNCHANGED <<kbVars, retrievalVars, authVars, apiVars>>

\* generate_response: the stream raises, the error chunk is sent
generate_response_except(r) ==
    /\ chat_req[r].pc = "streaming"
    /\ chat_req' = [chat_req EXCEPT ![r].pc = "error"]
    /\ UNCHANGED <<kbVars, retrievalVars, authVars, apiVars, memory>>

\* generate_response: the stream ends without an exception
generate_response_else(r) ==
    /\ chat_req[r].pc = "streaming"
    /\ memory' = save(memory, "assistant", r)
    /\ chat_req' = [chat_req EXCEPT ![r].pc = "done"]
    /\ UNCHANGED <<kbVars, retrievalVars, authVars, apiVars>>

\* POST /reset_memory
reset_memory ==
    /\ memory' = reset(memory)
    /\ UNCHANGED <<kbVars, retrievalVars, authVars, apiVars, chat_req>>

NextChat ==
    \/ \E r \in Requests : chat(r)
    \/ \E r \in Requests : chat_stream(r)
    \/ \E r \in Requests : generate_response_except(r)
    \/ \E r \in Requests : generate_response_else(r)
    \/ reset_memory

SpecChat == InitChat /\ [][NextChat]_vars

Next ==
    \/ get_hybrid_rerank_retriever
    \/ invoke_semantic
    \/ invoke_semantic_raises
    \/ invoke_again
    \/ invoke_bm25
    \/ invoke_merge
    \/ invoke_rerank
    \/ invoke_return

Spec == Init /\ [][Next]_vars

\* an empty docs goes on to the lock and the swap like any other
build_parse_NoEarlyReturn ==
    /\ build_pc = "idle"
    /\ vector_dir' = TRUE
    /\ \E files \in Uploads : build_docs' = BuildDocs(files, 1)
    /\ build_pc' = "waiting"
    /\ UNCHANGED <<extVars, store, pc, bm25_retriever, callVars, log, lock,
                   generations>>

\* an empty docs raises
build_parse_Raises ==
    /\ build_pc = "idle"
    /\ vector_dir' = TRUE
    /\ \E files \in Uploads : build_docs' = BuildDocs(files, 1)
    /\ IF build_docs' = <<>>
       THEN /\ build_pc' = "ConfigurationError"
            /\ log' = log
       ELSE /\ build_pc' = "waiting"
            /\ log' = log
    /\ UNCHANGED <<extVars, store, pc, bm25_retriever, callVars, lock, generations>>

\* build_vector_store, lines 172-206: mkdir leaves an existing directory as
\* it is, the files are read into docs; with no docs the warning is logged
\* and the function returns
build_parse ==
    /\ build_pc = "idle"
    /\ vector_dir' = TRUE
    /\ \E files \in Uploads : build_docs' = BuildDocs(files, 1)
    /\ IF build_docs' = <<>>
       THEN /\ build_pc' = "returned"
            /\ log' = "vector_store_empty"
       ELSE /\ build_pc' = "waiting"
            /\ log' = log
    /\ UNCHANGED <<extVars, store, pc, bm25_retriever, callVars, lock, generations>>

\* with _VECTOR_BUILD_LOCK:
build_acquire ==
    /\ build_pc = "waiting"
    /\ ~lock
    /\ lock' = TRUE
    /\ build_pc' = "locked"
    /\ UNCHANGED <<extVars, store, pc, bm25_retriever, callVars, build_docs, log,
                   generations,
                   vector_dir>>

\* shutil.rmtree(vector_dir)
build_rmtree ==
    /\ build_pc = "locked"
    /\ store' = <<>>
    /\ vector_dir' = FALSE
    /\ build_pc' = "deleted"
    /\ UNCHANGED <<extVars, pc, bm25_retriever, callVars, build_docs, log, lock,
                   generations>>

\* Chroma.from_documents(docs, embeddings, persist_directory=...) opens the
\* persistent client: the directory is there again, the collection is empty
build_from_documents_open ==
    /\ build_pc = "deleted"
    /\ vector_dir' = TRUE
    /\ store' = <<>>
    /\ build_pc' = "writing"
    /\ UNCHANGED <<extVars, pc, bm25_retriever, callVars, build_docs, log, lock,
                   generations>>

\* Chroma.from_documents adds the documents and returns.  When the directory
\* was removed under the open client the documents are written again or go
\* to files that no longer have a name.
build_from_documents ==
    /\ build_pc = "writing"
    /\ \E kept \in (IF vector_dir THEN {TRUE} ELSE BOOLEAN) :
          /\ vector_dir' = kept
          /\ store' = IF kept THEN build_docs ELSE <<>>
          /\ generations' = IF kept THEN generations \cup {build_docs}
                            ELSE generations
    /\ build_pc' = "written"
    /\ UNCHANGED <<extVars, pc, bm25_retriever, callVars, build_docs, log, lock>>

\* Chroma.from_documents raises because the directory was removed under
\* the open client; the with block releases the lock
build_from_documents_raises ==
    /\ build_pc = "writing"
    /\ ~vector_dir
    /\ lock' = FALSE
    /\ build_pc' = "raised"
    /\ UNCHANGED <<extVars, store, pc, bm25_retriever, callVars, build_docs, log,
                   generations, vector_dir>>

\* the with block ends, the build is logged, and `return store` names a
\* variable the function does not have
build_finish ==
    /\ build_pc = "written"
    /\ lock' = FALSE
    /\ log' = "vector_store_built"
    /\ build_pc' = "NameError"
    /\ UNCHANGED <<extVars, store, pc, bm25_retriever, callVars, build_docs,
                   generations, vector_dir>>

\* the background task is over; the next upload starts another
build_again ==
    /\ build_pc \in {"returned", "NameError", "raised"}
    /\ build_pc' = "idle"
    /\ build_docs' = <<>>
    /\ log' = "none"
    /\ UNCHANGED <<extVars, store, pc, bm25_retriever, callVars, lock, generations,
                   vector_dir>>

NextBuild ==
    \/ get_hybrid_rerank_retriever
    \/ invoke_semantic
    \/ invoke_semantic_raises
    \/ invoke_again
    \/ invoke_bm25
    \/ invoke_merge
    \/ invoke_rerank
    \/ invoke_return
    \/ build_parse
    \/ build_acquire
    \/ build_rmtree
    \/ build_from_documents_open
    \/ build_from_documents
    \/ build_finish
    \/ build_again

SpecBuild == InitBuild /\ [][NextBuild]_vars

(***************************************************************************)
(* /upload_pdfs, /delete_document and /clear_knowledge_base (main.py) with *)
(* the builds they start.  The handlers run on the event loop, one at a    *)
(* time; build_vector_store runs as a background task in a worker thread   *)
(* and its steps interleave with the handlers.  One build runs at a time   *)
(* here; the tasks that wait are in pending.                               *)
(***************************************************************************)
MaxPending == 1

\* the files a client has
KbFiles == {FileNoise, FileLong, FileMixed}

\* data_dir.glob("*.pdf") as a list: the files in some order
GlobOrders(dir) ==
    {files \in [1..Cardinality(dir) -> dir] : Injective(files)}

InitKB ==
    /\ RetrievalIdle
    /\ ExtIdle

\* POST /upload_pdfs with files whose names are not in data_dir yet
upload_pdfs(files) ==
    /\ Len(pending) < MaxPending
    /\ Range(files) \cap data_dir = {}
    /\ data_dir' = data_dir \cup Range(files)
    /\ pending' = Append(pending, files)
    /\ UNCHANGED <<retrievalVars, authVars, apiVars, chatVars>>

\* POST /delete_document/{filename} for a file that exists
delete_document(file) ==
    /\ file \in data_dir
    /\ data_dir' = data_dir \ {file}
    /\ IF data_dir' # {}
       THEN /\ Len(pending) < MaxPending
            /\ \E remaining_docs \in GlobOrders(data_dir') :
                  pending' = Append(pending, remaining_docs)
            /\ UNCHANGED <<store, vector_dir>>
       ELSE /\ pending' = pending
            /\ store' = <<>>
            /\ vector_dir' = FALSE
    /\ UNCHANGED <<authVars, apiVars, chatVars, pc, bm25_retriever, callVars,
                   build_pc, build_docs, log, lock, generations>>

\* POST /clear_knowledge_base
clear_knowledge_base ==
    /\ store' = <<>>
    /\ vector_dir' = FALSE
    /\ data_dir' = {}
    /\ UNCHANGED <<authVars, apiVars, chatVars, pc, bm25_retriever, callVars,
                   build_pc, build_docs, log, lock, generations, pending>>

\* a background task starts: build_vector_store(files), lines 172-206;
\* PdfReader raises on a path whose file has been deleted since
build_task ==
    /\ build_pc = "idle"
    /\ pending # <<>>
    /\ pending' = Tail(pending)
    /\ vector_dir' = TRUE
    /\ IF Range(Head(pending)) \subseteq data_dir
       THEN /\ build_docs' = BuildDocs(Head(pending), 1)
            /\ IF build_docs' = <<>>
               THEN /\ build_pc' = "returned"
                    /\ log' = "vector_store_empty"
               ELSE /\ build_pc' = "waiting"
                    /\ log' = log
       ELSE /\ build_docs' = <<>>
            /\ build_pc' = "raised"
            /\ log' = log
    /\ UNCHANGED <<authVars, apiVars, chatVars, data_dir, store, pc,
                   bm25_retriever, callVars, lock, generations>>

NextKB ==
    \/ \E files \in Uploads : upload_pdfs(files)
    \/ \E file \in KbFiles : delete_document(file)
    \/ clear_knowledge_base
    \/ build_task
    \/ build_acquire
    \/ build_rmtree
    \/ build_from_documents_open
    \/ build_from_documents
    \/ build_from_documents_raises
    \/ build_finish
    \/ build_again

SpecKB == InitKB /\ [][NextKB]_vars

(***************************************************************************)
(* Properties.                                                             *)
(***************************************************************************)
\* position of a document in the corpus of the keyword index
CorpusPos(d) ==
    CHOOSE i \in 1..Len(bm25_retriever.documents) :
        bm25_retriever.documents[i] = d

\* BM25 score of a document of the corpus for the current query
ScoreOf(d) == _compute_bm25_score(bm25_retriever, query, CorpusPos(d))

\* BM25 score of every document of the corpus for the current query
CorpusScores ==
    [i \in 1..Len(bm25_retriever.documents) |->
        _compute_bm25_score(bm25_retriever, query, i)]

\* d ranks before e under the scores sc of the corpus: higher score, or
\* equal score and earlier in the corpus
RanksBefore(sc, d, e) ==
    \/ sc[CorpusPos(d)] > sc[CorpusPos(e)]
    \/ sc[CorpusPos(d)] = sc[CorpusPos(e)] /\ CorpusPos(d) < CorpusPos(e)

\* the first 100 characters of a content
First100(content) == SubSeq(content, 1, Min(100, Len(content)))

\* positions of a list whose content prefix does not occur earlier in it
FirstSeen(docs) ==
    {m \in 1..Len(docs) :
        \A n \in 1..(m - 1) :
            First100(docs[n].page_content) # First100(docs[m].page_content)}

\* the four positive signals of a document for the current query
Signals(content) ==
    <<_compute_semantic_score(query, content),
      _compute_keyword_score(query, content),
      _compute_relevance_boost(query, content),
      _compute_quality_score(content)>>

AfterMerge == pc \in {"merged", "reranked", "returned"}
AfterRerank == pc \in {"reranked", "returned"}
AfterKeyword == pc \in {"keyword", "merged", "reranked", "returned"}

\* C1: for every corpus, query and k, invoke(query, k) returns at most k
\* documents (read in the claim's favour for k < 0: no document), and every
\* returned document is, unchanged, an element of the deduplicated merge of
\* the semantic hits and the keyword hits of the call.
C1_AtMostKFromMerge ==
    pc = "returned" =>
        /\ Len(result) <= Max(k, 0)
        /\ \A i \in 1..Len(result) :
               \E j \in 1..Len(all_docs) : result[i] = all_docs[j]

\* C2: invoke is semantic search with fan-out 15, keyword retrieve with the
\* caller's k, merge with the semantic hits first, rerank of the merged
\* list, and the first k ranked documents:
\* result = rerank(query, merge(semantic_hits, keyword_hits))[:k].
C2_Pipeline ==
    pc = "returned" =>
        /\ Len(semantic_docs) = Min(15, Len(store))
        /\ Range(semantic_docs) \subseteq Range(store)
        /\ bm25_docs = retrieve(bm25_retriever, query, k)
        /\ result = PySlice(rerank(query,
                        _merge_and_deduplicate(semantic_docs, bm25_docs)), k)

\* a call in which both the keyword hits and the result are cut to k and the
\* keyword hits would come first in the other merge order
C2_Witness ==
    /\ pc = "returned"
    /\ k = 1
    /\ Len(scores) = 2
    /\ Len(bm25_docs) = 1
    /\ Len(all_docs) = 2
    /\ Len(result) = 1
    /\ semantic_docs[1] # bm25_docs[1]

\* C3: every computed relevance score is in [0, 1], also for content with
\* every spam phrase and with every positive signal at its maximum.
C3_ScoreInUnitInterval ==
    \A i \in 1..Len(scored_docs) :
        /\ 0 <= scored_docs[i][1]
        /\ scored_docs[i][1] <= WeightDen * One

\* a scored document with all nine spam phrases and the four positive
\* signals at 1, 1, 1 and 0.8, next to one whose weighted sum is negative
C3_Witness ==
    /\ pc = "reranked"
    /\ \E i \in 1..Len(scored_docs) :
        /\ spam_count(scored_docs[i][2].page_content) = Len(spam_keywords)
        /\ Signals(scored_docs[i][2].page_content)
               = <<One, One, One, (8 * One) \div 10>>
    /\ \E i \in 1..Len(scored_docs) :
        /\ total_score(query, scored_docs[i][2].page_content) < 0
        /\ scored_docs[i][1] = 0

\* C4: of two documents with equal semantic, keyword, boost and quality
\* signals, one with at least 2 spam phrases scores strictly lower than one
\* with none.
C4_SpamStrictlyLower ==
    \A i \in 1..Len(scored_docs) :
        LET spammy == scored_docs[i][2].page_content
        IN  spam_count(spammy) >= 2 =>
                \A j \in 1..Len(scored_docs) :
                    LET clean == scored_docs[j][2].page_content
                    IN  ( /\ spam_count(clean) = 0
                          /\ Signals(spammy) = Signals(clean) )
                        => scored_docs[i][1] < scored_docs[j][1]

\* such a pair in which the spam-laden document is clamped to 0
C4_Witness ==
    /\ pc = "reranked"
    /\ \E i, j \in 1..Len(scored_docs) :
        /\ Signals(scored_docs[i][2].page_content)
               = Signals(scored_docs[j][2].page_content)
        /\ spam_count(scored_docs[i][2].page_content) >= 2
        /\ spam_count(scored_docs[j][2].page_content) = 0
        /\ scored_docs[i][1] = 0
        /\ total_score(query, scored_docs[i][2].page_content) < 0

\* C5: for the two-document scenario and its query, rerank places the clean
\* document before the spam document, in whichever order they are given.
C5_ScenarioCleanFirst ==
    ( /\ AfterRerank
      /\ query = QueryScenario
      /\ Len(all_docs) = 2
      /\ {all_docs[1].page_content, all_docs[2].page_content}
             = {CleanText, SpamText} )
    => /\ Len(reranked_docs) = 2
       /\ reranked_docs[1].page_content = CleanText
       /\ reranked_docs[2].page_content = SpamText

\* the scenario with the spam document given first
C5_Witness ==
    /\ pc = "reranked"
    /\ query = QueryScenario
    /\ all_docs = <<DocSpam, DocClean>>
    /\ reranked_docs = <<DocClean, DocSpam>>

C7_MergeIdempotent ==
    AfterMerge => _merge_and_deduplicate(all_docs, <<>>) = all_docs

\* a merge of two lists that dropped a duplicate and kept two documents
C7_Witness ==
    /\ pc = "merged"
    /\ Len(all_docs) = 2
    /\ Len(semantic_docs) + Len(bm25_docs) > 2

\* C8: retrieve(query, k) returns the k highest-scoring documents in
\* descending score order, none with score 0, equal scores in corpus order.
C8_TopKDescendingStable ==
    AfterKeyword =>
        LET corpus == bm25_retriever.documents
            sc == CorpusScores
            positive == {d \in Range(corpus) : sc[CorpusPos(d)] > 0}
        IN  /\ Range(bm25_docs) \subseteq positive
            /\ \A i, j \in 1..Len(bm25_docs) :
                   i < j => RanksBefore(sc, bm25_docs[i], bm25_docs[j])
            /\ \A d \in Range(bm25_docs) :
                   \A e \in positive \ Range(bm25_docs) : RanksBefore(sc, d, e)
            /\ k >= 0 => Len(bm25_docs) = Min(k, Cardinality(positive))

\* two documents with the same positive score and k = 1: the one that is
\* first in the corpus is returned
C8_Witness ==
    /\ pc = "keyword"
    /\ k = 1
    /\ Len(bm25_retriever.documents) = 2
    /\ ScoreOf(bm25_retriever.documents[1]) > 0
    /\ ScoreOf(bm25_retriever.documents[1])
           = ScoreOf(bm25_retriever.documents[2])
    /\ bm25_docs = <<bm25_retriever.documents[1]>>

\* C9: the BM25 score of every document is non-negative, and zero when no
\* token of the query is in the vocabulary.
C9_ScoreNonNegative ==
    AfterKeyword =>
        LET sc == CorpusScores
            unknown == Range(_tokenize(query))
                           \cap DOMAIN bm25_retriever.vocab = {}
        IN  \A i \in 1..Len(bm25_retriever.documents) :
                /\ sc[i] >= 0
                /\ unknown => sc[i] = 0

\* a query all of whose tokens occur in every document of a two-document
\* corpus (the smallest idf), with all scores positive
C9_Witness ==
    /\ pc = "keyword"
    /\ Len(bm25_retriever.documents) = 2
    /\ _tokenize(query) # <<>>
    /\ \A c \in Range(_tokenize(query)) :
           /\ c \in DOMAIN bm25_retriever.vocab
           /\ Cardinality(bm25_retriever.vocab[c]) = 2
    /\ Len(scores) = 2

\* C10: idf is non-increasing in document frequency, and for more than one
\* document a token of every document has strictly lower idf than a token
\* of exactly one document.
C10_IdfMonotone ==
    pc = "ready" =>
        LET vocab == bm25_retriever.vocab
            idf == bm25_retriever.idf
            n == Len(bm25_retriever.documents)
        IN  \A t1, t2 \in DOMAIN vocab :
                /\ Cardinality(vocab[t1]) <= Cardinality(vocab[t2])
                       => idf[t1] >= idf[t2]
                /\ ( /\ n > 1
                     /\ Cardinality(vocab[t1]) = n
                     /\ Cardinality(vocab[t2]) = 1 )
                   => idf[t1] < idf[t2]

\* an index over two documents with a token in both and a token in one
C10_Witness ==
    /\ pc = "ready"
    /\ Len(bm25_retriever.documents) = 2
    /\ \E t1, t2 \in DOMAIN bm25_retriever.vocab :
        /\ Cardinality(bm25_retriever.vocab[t1]) = 2
        /\ Cardinality(bm25_retriever.vocab[t2]) = 1

\* C11: the keyword retrieval returns the empty list, and returns normally,
\* when the query is empty or holds only whitespace, and when no token of
\* the query is a key of the vocabulary.
NoQueryTokenKnown ==
    \A i \in 1..Len(query) :
        \/ query[i] \in Whitespace
        \/ query[i] \notin DOMAIN bm25_retriever.vocab

C11_EmptyOnNoMatch ==
    (AfterKeyword /\ NoQueryTokenKnown) => (scores = <<>> /\ bm25_docs = <<>>)

C11_Witness ==
    /\ pc = "keyword"
    /\ query = QueryBlank
    /\ k > 0
    /\ Len(bm25_retriever.documents) = MaxDocs
    /\ bm25_docs = <<>>

\* C12: constructing the keyword index over an empty corpus fails with an
\* error in the constructor: no index over an empty corpus exists, and none
\* is queried.
C12_EmptyCorpusFailsAtConstruction ==
    /\ (pc # "idle" /\ Len(store) = 0) =>
           (pc = "ZeroDivisionError" /\ bm25_retriever = NoRetriever)
    /\ pc \notin {"idle", "ZeroDivisionError"} =>
           Len(bm25_retriever.documents) > 0

C12_Witness ==
    /\ pc = "ZeroDivisionError"
    /\ store = <<>>
    /\ bm25_retriever = NoRetriever
    /\ result = <<>>

\* C17: when the semantic search raises during a retrieval, the exception
\* reaches the caller of invoke: nothing is returned, the keyword retrieval
\* is not run in its place, and the search was attempted exactly once.
C17_SearchFailurePropagates ==
    semantic_error =>
        /\ pc = "Exception"
        /\ semantic_calls = 1
        /\ scores = <<>>
        /\ bm25_docs = <<>>
        /\ all_docs = <<>>
        /\ result = <<>>

C17_Witness ==
    /\ pc = "Exception"
    /\ semantic_error
    /\ semantic_calls = 1
    /\ query = QueryScenario
    /\ k = MaxK
    /\ Len(bm25_retriever.documents) = MaxDocs

\* C18: a retrieval with an empty query or with a negative k is rejected
\* with an error: it never returns documents.
C18_InvalidCallReturnsNothing ==
    (pc = "returned" /\ (query = <<>> \/ k < 0)) => result = <<>>

\* C15: rerank returns a permutation of its input, ordered by descending
\* composite score; documents of equal score keep their input order.
Occurrences(s, d) == Cardinality({i \in 1..Len(s) : s[i] = d})

InputPos(d) == CHOOSE i \in 1..Len(all_docs) : all_docs[i] = d

C15_RerankStablePermutation ==
    AfterRerank =>
        /\ Len(reranked_docs) = Len(all_docs)
        /\ \A d \in Range(all_docs) \cup Range(reranked_docs) :
               Occurrences(reranked_docs, d) = Occurrences(all_docs, d)
        /\ \A i \in 1..Len(reranked_docs) :
               LET si == compute_relevance_score(query, reranked_docs[i])
               IN  \A j \in (i + 1)..Len(reranked_docs) :
                       LET sj == compute_relevance_score(query,
                                                         reranked_docs[j])
                       IN  \/ si > sj
                           \/ /\ si = sj
                              /\ InputPos(reranked_docs[i])
                                     < InputPos(reranked_docs[j])

\* two documents of equal score, kept in input order
C15_Witness ==
    /\ pc = "reranked"
    /\ Len(all_docs) = 2
    /\ all_docs[1] # all_docs[2]
    /\ compute_relevance_score(query, all_docs[1])
           = compute_relevance_score(query, all_docs[2])
    /\ reranked_docs = all_docs

\* C19: the composite score is 0.35*semantic + 0.25*keyword + 0.20*boost
\* + 0.15*quality - 0.5*spam, clamped to [0, 1] once, after the whole sum;
\* each of the five signals lies in [0, 1].
WeightedSum(signals, spam) ==
      35 * signals[1]
    + 25 * signals[2]
    + 20 * signals[3]
    + 15 * signals[4]
    - 50 * spam

ContentSum(content) ==
    WeightedSum(Signals(content), _detect_spam_content(content))

C19_CompositeScore ==
    AfterRerank =>
        \A i \in 1..Len(scored_docs) :
            LET content == scored_docs[i][2].page_content
                signals == Signals(content)
                spam == _detect_spam_content(content)
                sum == WeightedSum(signals, spam)
            IN  /\ \A j \in 1..4 : signals[j] \in 0..One
                /\ spam \in 0..One
                /\ scored_docs[i][1] =
                       IF sum < 0 THEN 0
                       ELSE IF sum > 100 * One THEN 100 * One
                       ELSE sum

\* one document scored by its sum, one whose negative sum is clamped to 0
C19_Witness ==
    /\ pc = "reranked"
    /\ Len(scored_docs) = 2
    /\ scored_docs[1][1] > 0
    /\ scored_docs[1][1] = ContentSum(scored_docs[1][2].page_content)
    /\ _detect_spam_content(scored_docs[1][2].page_content) > 0
    /\ ContentSum(scored_docs[2][2].page_content) < 0
    /\ scored_docs[2][1] = 0

\* C20: once the keyword index is constructed, and after any sequence of
\* retrievals on it, doc_lengths has one entry per document of the corpus,
\* the keys of idf are the keys of vocab, and idf is the map computed at
\* construction: no retrieval adds a key or recomputes a value.
Constructed == pc \notin {"idle", "ZeroDivisionError"}

C20_IndexFixedAfterConstruction ==
    Constructed =>
        /\ Len(bm25_retriever.doc_lengths) = Len(bm25_retriever.documents)
        /\ DOMAIN bm25_retriever.idf = DOMAIN bm25_retriever.vocab
        /\ LET documents == bm25_retriever.documents
               n == Len(documents)
               idfOfDf == [df \in 0..n |-> IdfOf(n, df)]
               tokens == [i \in 1..n |->
                             Range(_tokenize(documents[i].page_content))]
           IN  /\ DOMAIN bm25_retriever.idf = UNION Range(tokens)
               /\ \A w \in DOMAIN bm25_retriever.idf :
                      bm25_retriever.idf[w] =
                          idfOfDf[Cardinality({i \in 1..n : w \in tokens[i]})]

\* a retrieval with a token that is no key of the vocabulary has run
C20_Witness ==
    /\ pc = "returned"
    /\ query = QueryNone
    /\ Len(bm25_retriever.documents) = MaxDocs
    /\ 38646 \notin DOMAIN bm25_retriever.vocab
    /\ DOMAIN bm25_retriever.idf # {}

\* C13: a build whose corpus comes out empty logs the warning and returns,
\* and swaps nothing: the persisted collection is the same after the call
\* as before it, and no build with an empty corpus ever reaches the swap.
C13_EmptyBuildKeepsIndex ==
    /\ [](build_pc \in {"waiting", "locked", "deleted", "writing", "written"}
              => build_docs # <<>>)
    /\ [][(build_pc = "idle" /\ build_pc' # "idle" /\ build_docs' = <<>>)
              => /\ build_pc' = "returned"
                 /\ log' = "vector_store_empty"
                 /\ store' = store
                 /\ generations' = generations
                 /\ lock' = lock]_vars

\* the empty build has returned, and the collection written before it has
\* answered a query
C13_Witness ==
    /\ build_pc = "returned"
    /\ build_docs = <<>>
    /\ log = "vector_store_empty"
    /\ store = BuildDocs(<<FileLong>>, 1)
    /\ pc = "returned"
    /\ bm25_retriever.documents = store
    /\ query = QueryMax
    /\ Len(result) = Min(k, Len(store))
    /\ result # <<>>

ReadDocs ==
    IF pc = "ZeroDivisionError" THEN <<>> ELSE bm25_retriever.documents

C16_ReadsCompleteGeneration ==
    /\ pc # "idle" => ReadDocs \in generations
    /\ pc \in {"semantic", "keyword", "merged", "reranked", "returned"} =>
           \E g \in generations : Range(semantic_docs) = Range(g)

\* C21: the keyword hits and the semantic hits of one retrieval come from
\* the same corpus generation, however index rebuilds interleave with
\* get_hybrid_rerank_retriever and invoke: every semantic hit is a document
\* of the corpus the keyword index of that retrieval was built over.
C21_SameGeneration ==
    pc \in {"semantic", "keyword", "merged", "reranked", "returned"} =>
        Range(semantic_docs) \subseteq Range(bm25_retriever.documents)

\* C22: retrieval is read-only.  No step of invoke changes the keyword
\* index (documents, vocab, idf, doc_lengths, avg_doc_len) or the
\* collection; the merge leaves the two hit lists it is given unchanged and
\* the rerank leaves the merged list unchanged; so the result of a call is
\* determined by the query, k, the semantic hits and the index, however many
\* calls ran before.
InInvoke == pc \in {"ready", "semantic", "keyword", "merged", "reranked"}

C22_RetrievalReadOnly ==
    /\ [][InInvoke =>
              /\ bm25_retriever' = bm25_retriever
              /\ store' = store
              /\ pc = "keyword" =>
                     (semantic_docs' = semantic_docs /\ bm25_docs' = bm25_docs)
              /\ pc = "merged" => all_docs' = all_docs
              /\ pc = "reranked" => reranked_docs' = reranked_docs]_vars
    /\ [](pc = "returned" =>
              result = PySlice(rerank(query,
                                      _merge_and_deduplicate(
                                          semantic_docs,
                                          retrieve(bm25_retriever, query, k))),
                               k))

\* a rerank that reorders the merged list has run and returned
C22_Witness ==
    /\ pc = "returned"
    /\ Len(all_docs) = 2
    /\ reranked_docs # all_docs
    /\ all_docs = _merge_and_deduplicate(semantic_docs, bm25_docs)
    /\ bm25_retriever = BM25Retriever(store)

\* C23: for every document i of the corpus doc_lengths[i] is the number of
\* tokens _tokenize produces for it (its non-whitespace characters), and
\* avg_doc_len is the arithmetic mean of those token counts.
RECURSIVE SumTokens(_, _)
SumTokens(documents, i) ==
    IF i > Len(documents) THEN 0
    ELSE Len(_tokenize(documents[i].page_content))
             + SumTokens(documents, i + 1)

C23_LengthsAreTokenCounts ==
    Constructed =>
        /\ \A i \in 1..Len(bm25_retriever.documents) :
               bm25_retriever.doc_lengths[i] =
                   Len(_tokenize(bm25_retriever.documents[i].page_content))
        /\ bm25_retriever.avg_doc_len.sum * Len(bm25_retriever.documents) =
               SumTokens(bm25_retriever.documents, 1)
                   * bm25_retriever.avg_doc_len.n

\* C24 as stated: the spam signal of a content is min(1.0, 0.3 * count),
\* count being the number of occurrences in the content of phrases of the
\* spam list, every occurrence counted.
SpamOccurrences(content) ==
    Cardinality({<<i, j>> \in (1..Len(spam_keywords)) \X (1..Len(content)) :
        /\ j + Len(spam_keywords[i]) - 1 <= Len(content)
        /\ \A m \in 1..Len(spam_keywords[i]) :
               content[j + m - 1] = spam_keywords[i][m]})

C24_CountsEveryOccurrence ==
    pc = "rerank_done" =>
        \A i \in 1..Len(all_docs) :
            spam_penalty[i] =
                Min(One, (3 * One * SpamOccurrences(all_docs[i].page_content))
                             \div 10)

\* C24, amended: the spam signal of a content is min(1.0, 0.3 * count),
\* count being the number of phrases of the spam list that occur in the
\* content at least once; it is 0 when none occurs.
PhrasesPresent(content) ==
    {i \in 1..Len(spam_keywords) :
        \E j \in 1..Len(content) :
            /\ j + Len(spam_keywords[i]) - 1 <= Len(content)
            /\ \A m \in 1..Len(spam_keywords[i]) :
                   content[j + m - 1] = spam_keywords[i][m]}

C24_CountsPhrasesPresent ==
    pc = "rerank_done" =>
        /\ Len(spam_penalty) = Len(all_docs)
        /\ \A i \in 1..Len(all_docs) :
               LET count == Cardinality(PhrasesPresent(all_docs[i].page_content))
               IN  /\ spam_penalty[i] = Min(One, (3 * One * count) \div 10)
                   /\ count = 0 => spam_penalty[i] = 0

\* a content with one phrase twice, and one without any
C24_Witness ==
    /\ pc = "rerank_done"
    /\ all_docs = <<DocRepeat, DocClean>>
    /\ SpamOccurrences(DocRepeat.page_content) = 2
    /\ spam_penalty = <<(3 * One) \div 10, 0>>

\* C25: a state token is single-use.  Once validate_state has looked a
\* token up the token is out of the store, whether the call then succeeds
\* or fails, so of all the validate_state calls made with one token, by
\* whatever callers, at most one succeeds.
C25_SingleUse ==
    /\ \A t \in 1..Len(accepted) : accepted[t] <= 1
    /\ \A c \in Callers :
           (auth_call[c].pc \in {"popped", "ok", "400"}
                /\ auth_call[c].token # 0)
               => auth_call[c].token \notin DOMAIN _states

\* two callers presented the same token for its provider: one succeeded,
\* the other was rejected
C25_Witness ==
    /\ auth_call[1].pc = "ok"
    /\ auth_call[2].pc = "400"
    /\ auth_call[1].token = auth_call[2].token
    /\ auth_call[1].provider = auth_call[2].provider
    /\ accepted[auth_call[1].token] = 1

\* C26: validate_state(provider, token) succeeds only for a token that
\* create_state returned for the same provider, that no call has validated
\* before, and whose age at the time of the call is at most its ttl; a
\* missing token, an unknown token, a token of another provider and an
\* expired token are rejected with HTTP 400.
CallOver(c) == auth_call[c].pc \in {"ok", "400"}

C26_ValidateOnlyFresh ==
    \A c \in Callers :
        LET call == auth_call[c]
        IN  /\ call.pc = "ok" =>
                   /\ call.token \in 1..Len(issued)
                   /\ issued[call.token].provider = call.provider
                   /\ call.now - issued[call.token].created_at
                          <= issued[call.token].ttl
                   /\ accepted[call.token] = 1
            /\ (CallOver(c) /\ call.token = 0) => call.pc = "400"
            /\ (CallOver(c) /\ call.token \notin 1..Len(issued))
                   => call.pc = "400"
            /\ (CallOver(c) /\ call.token \in 1..Len(issued)) =>
                   /\ issued[call.token].provider # call.provider
                          => call.pc = "400"
                   /\ call.now - issued[call.token].created_at
                          > issued[call.token].ttl
                          => call.pc = "400"

\* a token of the other provider was rejected, and one call on an expired
\* token of the right provider was rejected too
C26_Witness ==
    /\ auth_call[1].pc = "400"
    /\ auth_call[1].token \in 1..Len(issued)
    /\ issued[auth_call[1].token].provider # auth_call[1].provider
    /\ auth_call[2].pc = "400"
    /\ auth_call[2].token \in 1..Len(issued)
    /\ issued[auth_call[2].token].provider = auth_call[2].provider
    /\ auth_call[2].now - issued[auth_call[2].token].created_at
           > issued[auth_call[2].token].ttl
    /\ accepted[auth_call[2].token] = 0

\* C30 as stated: with at least one key configured a request is admitted
\* if and only if it presents a configured key in the X-API-Key header or
\* as a Bearer token of the Authorization header, and is rejected with 401
\* otherwise; with no key configured every request is admitted.
HeaderKey == IF Truthy(x_api_key) THEN strip(x_api_key) ELSE None

BearerKey ==
    IF Truthy(authorization)
          /\ Len(authorization) >= 7
          /\ lower(SubSeq(authorization, 1, 7)) = BearerPrefix
    THEN strip(SubSeq(authorization, 8, Len(authorization)))
    ELSE None

Configured(key) == key # None /\ \E i \in 1..Len(api_keys) : api_keys[i] = key

C30_AdmitsEitherHeader ==
    api_pc \in {"admitted", "401"} =>
        IF api_keys = <<>> THEN api_pc = "admitted"
        ELSE api_pc = "admitted"
                 <=> (Configured(HeaderKey) \/ Configured(BearerKey))

\* C30, amended: with at least one key configured a request is admitted if
\* and only if its candidate key is configured, the candidate being the
\* X-API-Key header when that header is non-empty and the Bearer token of
\* the Authorization header only otherwise (surrounding whitespace
\* stripped); every other request is rejected with 401; with no key
\* configured every request is admitted.
C30_AdmitsCandidateKey ==
    api_pc \in {"admitted", "401"} =>
        IF api_keys = <<>> THEN api_pc = "admitted"
        ELSE api_pc = "admitted"
                 <=> Configured(IF Truthy(x_api_key) THEN HeaderKey
                                ELSE BearerKey)

\* a wrong X-API-Key next to a configured Bearer token: rejected
C30_Witness ==
    /\ api_pc = "401"
    /\ api_keys = <<Key1>>
    /\ x_api_key = KeyBad
    /\ Configured(BearerKey)

\* C29: under every interleaving of /chat, /chat_stream and /reset_memory,
\* every stored assistant message is preceded in the chat table by the
\* user message of the same request.
C29_AssistantAfterUser ==
    \A i \in 1..Len(memory) :
        memory[i].role = "assistant" =>
            \E j \in 1..(i - 1) : memory[j] = Row("user", memory[i].request)

\* C27: once every background build has completed, the source files of
\* the documents in the vector index are the PDF files of the data
\* directory that yield at least one indexable chunk.
IndexedSources == {store[i].metadata.source : i \in 1..Len(store)}

Indexable(file) == BuildDocs(<<file>>, 1) # <<>>

C27_IndexMatchesDataDir ==
    (pending = <<>> /\ build_pc \in {"idle", "returned", "NameError"}) =>
        IndexedSources = {file.name : file \in {g \in data_dir : Indexable(g)}}

\* C28: while a build is between deleting the old directory and finishing
\* the new one, the directory is deleted or written by that build alone;
\* and the build lock is free whenever no build is inside the with block.
C28_BuildWindowExclusive ==
    /\ [][(build_pc \in {"deleted", "writing"} /\ build_pc' = build_pc)
              => (store' = store /\ vector_dir' = vector_dir)]_vars
    /\ [](build_pc \in {"idle", "waiting", "returned", "NameError", "raised"}
              => ~lock)

====
